---- MODULE Spec2Model ----
(***************************************************************************)
(* A model of scholar-gpt: the text normalizer and the batch extractor of  *)
(* pdf_utils.py, the RAGPipeline object of rag_pipeline.py and the         *)
(* Streamlit session of app.py.                                            *)
(*                                                                         *)
(* Strings are sequences of one-character tokens.  Python's None is the    *)
(* record None.                                                           *)
(***************************************************************************)
EXTENDS Integers, Sequences, FiniteSets, TLC

None == [none |-> TRUE]

\* the error of an operation that raised nothing
NoError == ""

(***************************************************************************)
(* Bounds of the model.                                                    *)
(***************************************************************************)
MaxLen == 5
MaxFiles == 3
MaxChunks == 2
MaxBuilds == 2
MaxUpload == 1
MaxMessages == 4

(***************************************************************************)
(* Characters.  NUL is '\x00'; BADBYTE is a byte that is not valid UTF-8.  *)
(***************************************************************************)
NUL == "NUL"
BADBYTE == "0xFF"
Whitespace == {" ", "\t", "\n"}
Chars == {"a", " ", "\t", "\n", NUL}

RECURSIVE SeqsUpTo(_, _)
SeqsUpTo(S, n) ==
    IF n = 0 THEN {<<>>}
    ELSE LET shorter == SeqsUpTo(S, n - 1)
         IN  shorter \cup {Append(s, c) : s \in {t \in shorter : Len(t) = n - 1}, c \in S}

Strings == SeqsUpTo(Chars, MaxLen)

(***************************************************************************)
(* Python string primitives, computed as CPython computes them.            *)
(***************************************************************************)
\* str.replace(ch, ''): every occurrence of ch removed
Remove(s, ch) == SelectSeq(s, LAMBDA c : c # ch)

\* str.split(sep) for a one-character sep: always at least one piece,
\* empty pieces kept
RECURSIVE SplitOn(_, _)
SplitOn(s, sep) ==
    IF \A i \in 1..Len(s) : s[i] # sep THEN <<s>>
    ELSE LET k == CHOOSE i \in 1..Len(s) :
                      s[i] = sep /\ \A j \in 1..(i - 1) : s[j] # sep
         IN  <<SubSeq(s, 1, k - 1)>> \o SplitOn(SubSeq(s, k + 1, Len(s)), sep)

\* str.lstrip() / str.rstrip() / str.strip(): whitespace removed at the ends
RECURSIVE LStrip(_)
LStrip(s) == IF s # <<>> /\ Head(s) \in Whitespace THEN LStrip(Tail(s)) ELSE s

RECURSIVE RStrip(_)
RStrip(s) ==
    IF s # <<>> /\ s[Len(s)] \in Whitespace THEN RStrip(SubSeq(s, 1, Len(s) - 1)) ELSE s

Strip(s) == RStrip(LStrip(s))

\* str.split() with no argument: pieces between whitespace runs, no empty piece
RECURSIVE SplitWords(_)
SplitWords(s) ==
    LET t == LStrip(s)
    IN  IF t = <<>> THEN <<>>
        ELSE IF \A i \in 1..Len(t) : t[i] \notin Whitespace THEN <<t>>
        ELSE LET k == CHOOSE i \in 1..Len(t) :
                          t[i] \in Whitespace /\ \A j \in 1..(i - 1) : t[j] \notin Whitespace
             IN  <<SubSeq(t, 1, k - 1)>> \o SplitWords(SubSeq(t, k + 1, Len(t)))

\* sep.join(parts)
RECURSIVE Join(_, _)
Join(parts, sep) ==
    IF parts = <<>> THEN <<>>
    ELSE IF Len(parts) = 1 THEN parts[1]
    ELSE parts[1] \o sep \o Join(Tail(parts), sep)

(***************************************************************************)
(* pdf_utils.clean_text                                                    *)
(***************************************************************************)
CleanLine(line) == Join(SplitWords(line), <<" ">>)

\* the NUL characters removed last, after the whitespace was collapsed
clean_text_nul_last(text) ==
    LET lines        == SplitOn(text, "\n")
        cleaned_lines == SelectSeq([i \in 1..Len(lines) |-> CleanLine(lines[i])],
                                   LAMBDA l : l # <<>>)
    IN  Remove(Strip(Join(cleaned_lines, <<"\n">>)), NUL)

clean_text(text) ==
    LET noNul        == Remove(text, NUL)
        lines        == SplitOn(noNul, "\n")
        cleaned_lines == SelectSeq([i \in 1..Len(lines) |-> CleanLine(lines[i])],
                                   LAMBDA l : l # <<>>)
    IN  Strip(Join(cleaned_lines, <<"\n">>))

(***************************************************************************)
(* Uploaded files.  A file is [name, readable, parses, parts]: name is     *)
(* <<stem, suffix>>; readable is whether read() returns; parses is whether *)
(* the format's parser (fitz, python-docx) accepts the bytes; parts are    *)
(* the texts the parser yields (the pages of a PDF, the paragraphs of a    *)
(* DOCX) or, for TXT and HTML, the one byte string of the file.            *)
(***************************************************************************)
\* str.lower() on the suffixes of the model
LowerSuffix(suffix) ==
    CASE suffix = ".PDF" -> ".pdf"
      [] suffix = ".Txt" -> ".txt"
      [] OTHER -> suffix

Lower(name) == <<name[1], LowerSuffix(name[2])>>

EndsWith(name, suffix) == name[2] = suffix

\* bytes.decode('utf-8', errors='ignore'): the invalid bytes are dropped
Decode(bytes) == Remove(bytes, BADBYTE)

\* re.sub('<[^<]+?>', '', s): TagEnd is the index closing the tag opened at
\* s[1], 0 when s[1] opens none
TagEnd(s) ==
    LET ends == {j \in 3..Len(s) : s[j] = ">" /\ \A i \in 2..(j - 1) : s[i] # "<"}
    IN  IF s # <<>> /\ s[1] = "<" /\ ends # {}
        THEN CHOOSE j \in ends : \A k \in ends : j <= k
        ELSE 0

RECURSIVE StripTags(_)
StripTags(s) ==
    IF s = <<>> THEN <<>>
    ELSE IF TagEnd(s) # 0 THEN StripTags(SubSeq(s, TagEnd(s) + 1, Len(s)))
    ELSE <<Head(s)>> \o StripTags(Tail(s))

Document(page_content, source, page, total_pages, format) ==
    [page_content |-> page_content,
     metadata |-> [source |-> source, page |-> page,
                   total_pages |-> total_pages, format |-> format]]

FileMetadata(filename, total_pages, total_text_length, format) ==
    [filename |-> filename, total_pages |-> total_pages,
     total_text_length |-> total_text_length, format |-> format]

Returned(documents, metadata) == [raised |-> FALSE, documents |-> documents, metadata |-> metadata]
Raised(error) == [raised |-> TRUE, error |-> error]

RECURSIVE SumLen(_)
SumLen(docs) ==
    IF docs = <<>> THEN 0 ELSE Len(Head(docs).page_content) + SumLen(Tail(docs))

\* pdf_utils.extract_text_from_pdf: one document per page with text
RECURSIVE PdfPages(_, _, _)
PdfPages(f, page_num, count) ==
    IF page_num > count THEN <<>>
    ELSE LET t == clean_text(f.parts[page_num])
         IN  (IF Strip(t) # <<>>
              THEN <<Document(t, f.name, page_num, count, "PDF")>>
              ELSE <<>>) \o PdfPages(f, page_num + 1, count)

extract_text_from_pdf(f) ==
    IF ~f.parses THEN Raised(<<"Error processing PDF", f.name>>)
    ELSE LET documents == PdfPages(f, 1, Len(f.parts))
         IN  Returned(documents,
                      FileMetadata(f.name, Len(f.parts), SumLen(documents), "PDF"))

\* the body shared by the TXT, DOCX and HTML extractors once the text is read
SingleDocument(f, t, format) ==
    IF Strip(t) = <<>> THEN Returned(<<>>, FileMetadata(f.name, 1, 0, format))
    ELSE Returned(<<Document(t, f.name, 1, 1, format)>>,
                  FileMetadata(f.name, 1, Len(t), format))

extract_text_from_txt(f) ==
    SingleDocument(f, clean_text(Decode(Join(f.parts, <<>>))), "TXT")

extract_text_from_docx(f) ==
    IF ~f.parses THEN Raised(<<"Error processing DOCX", f.name>>)
    ELSE SingleDocument(f, clean_text(Join(f.parts, <<"\n">>)), "DOCX")

extract_text_from_html(f) ==
    SingleDocument(f, clean_text(StripTags(Decode(Join(f.parts, <<>>)))), "HTML")

\* the try block of process_multiple_files for one file
ExtractFile(f) ==
    LET file_name == Lower(f.name)
    IN  IF ~f.readable THEN Raised(<<"read failed", f.name>>)
        ELSE IF EndsWith(file_name, ".pdf") THEN extract_text_from_pdf(f)
        ELSE IF EndsWith(file_name, ".txt") THEN extract_text_from_txt(f)
        ELSE IF EndsWith(file_name, ".docx") THEN extract_text_from_docx(f)
        ELSE IF EndsWith(file_name, ".html") \/ EndsWith(file_name, ".htm")
             THEN extract_text_from_html(f)
        ELSE Raised(<<"Unsupported file format", file_name>>)

ErrorMetadata(f, error) ==
    [filename |-> f.name, error |-> error, total_pages |-> 0,
     total_text_length |-> 0, format |-> "Unknown"]

\* the loop left at the first file that raises, its error record appended
RECURSIVE ProcessFrom_abort(_, _, _, _)
ProcessFrom_abort(files, i, all_documents, all_metadata) ==
    IF i > Len(files) THEN <<all_documents, all_metadata>>
    ELSE LET r == ExtractFile(files[i])
         IN  IF r.raised
             THEN <<all_documents, Append(all_metadata, ErrorMetadata(files[i], r.error))>>
             ELSE ProcessFrom_abort(files, i + 1, all_documents \o r.documents,
                                    Append(all_metadata, r.metadata))

\* pdf_utils.process_multiple_files: the loop over the files, from file i on
RECURSIVE ProcessFrom(_, _, _, _)
ProcessFrom(files, i, all_documents, all_metadata) ==
    IF i > Len(files) THEN <<all_documents, all_metadata>>
    ELSE LET r == ExtractFile(files[i])
         IN  IF r.raised
             THEN ProcessFrom(files, i + 1, all_documents,
                              Append(all_metadata, ErrorMetadata(files[i], r.error)))
             ELSE ProcessFrom(files, i + 1, all_documents \o r.documents,
                              Append(all_metadata, r.metadata))

process_multiple_files(files) == ProcessFrom(files, 1, <<>>, <<>>)

process_multiple_pdfs(files) == process_multiple_files(files)

UploadedFile(stem, suffix, readable, parses, parts) ==
    [name |-> <<stem, suffix>>, readable |-> readable, parses |-> parses, parts |-> parts]

\* the files the batches are drawn from
PdfThreePages == UploadedFile("p1", ".pdf", TRUE, TRUE, << <<"a", " ", " ", "a">>, <<" ", NUL>>, <<"a">> >>)
PdfUpperCase == UploadedFile("p2", ".PDF", TRUE, TRUE, << <<"a", "\n", "\n", "a">> >>)
PdfCorrupt == UploadedFile("p3", ".pdf", TRUE, FALSE, << <<"a">> >>)
PdfNoText == UploadedFile("p4", ".pdf", TRUE, TRUE, << <<" ", "\n">> >>)
PdfUnreadable == UploadedFile("p5", ".pdf", FALSE, TRUE, << <<"a">> >>)

PdfFiles == {PdfThreePages, PdfUpperCase, PdfCorrupt, PdfNoText, PdfUnreadable}

OtherFiles ==
    { UploadedFile("t1", ".Txt", TRUE, TRUE, << <<"a", BADBYTE, "\t", "a">> >>),
      UploadedFile("t2", ".txt", TRUE, TRUE, << <<" ", BADBYTE>> >>),
      UploadedFile("d1", ".docx", TRUE, TRUE, << <<"a">>, <<>>, <<"a", " ">> >>),
      UploadedFile("d2", ".docx", TRUE, FALSE, << <<"a">> >>),
      UploadedFile("h1", ".html", TRUE, TRUE, << <<"<", "a", ">", "a", "<", ">", ">", "a">> >>),
      UploadedFile("h2", ".htm", TRUE, TRUE, << <<"<", "a", ">">> >>),
      UploadedFile("x1", ".exe", TRUE, TRUE, << <<"a">> >>) }

SampleFiles == PdfFiles \cup OtherFiles

(***************************************************************************)
(* config.py defaults and the limit of a displayed source.                 *)
(***************************************************************************)
DEFAULT_EMBEDDING_MODEL == "text-embedding-3-small"
DEFAULT_LLM_MODEL == "gpt-4o-mini"
DEFAULT_CHUNK_SIZE == 1000
DEFAULT_CHUNK_OVERLAP == 200
DEFAULT_TOP_K == 4
SourceLimit == 200

Min(a, b) == IF a < b THEN a ELSE b

(***************************************************************************)
(* rag_pipeline.RAGPipeline.  An operation yields                          *)
(*   [raised, error, ret, pipe, embed_calls, llm_calls, result]:           *)
(* whether it raised and what, what it returned, the object afterwards,    *)
(* how many calls it made to the embedder and to the LLM, and what the QA  *)
(* chain produced (None when it produced nothing).  The text               *)
(* splitter, the embedder, the index and the LLM are libraries and network *)
(* services: what they produce is an argument of the operation, chosen by  *)
(* the caller of the model among the outcomes they can have.               *)
(***************************************************************************)
\* RAGPipeline.__init__
RAGPipeline(openai_api_key, embedding_model, llm_model, chunk_size, chunk_overlap, top_k) ==
    [openai_api_key |-> openai_api_key,
     embedding_model |-> embedding_model,
     llm_model |-> llm_model,
     chunk_size |-> chunk_size,
     chunk_overlap |-> chunk_overlap,
     top_k |-> top_k,
     embeddings |-> None,
     vectorstore |-> None,
     qa_chain |-> None,
     text_splitter |-> None,
     builds |-> 0]     \* how many indexes this object has built: tells them apart

Outcome(raised, error, ret, p, embed_calls, llm_calls) ==
    [raised |-> raised, error |-> error, ret |-> ret, pipe |-> p,
     embed_calls |-> embed_calls, llm_calls |-> llm_calls, result |-> None]

\* RAGPipeline.initialize_components
initialize_components(p) ==
    [p EXCEPT !.embeddings = [model |-> p.embedding_model],
              !.text_splitter = [chunk_size |-> p.chunk_size,
                                 chunk_overlap |-> p.chunk_overlap]]

\* FAISS.from_documents: a new index over the chunks
NewIndex(p, chunks) == [chunks |-> chunks, serial |-> p.builds + 1]

\* the index assigned empty before the embedder is called, filled afterwards
create_vectorstore_eager(p, documents, chunks, embed_ok) ==
    LET q == IF p.embeddings = None \/ p.text_splitter = None
             THEN initialize_components(p) ELSE p
    IN  IF chunks = <<>>
        THEN Outcome(TRUE, "ValueError: No text chunks", None, q, 0, 0)
        ELSE IF ~embed_ok
        THEN Outcome(TRUE, "EmbeddingServiceError", None,
                     [q EXCEPT !.vectorstore = NewIndex(q, <<>>)], 1, 0)
        ELSE Outcome(FALSE, NoError,
                     [num_chunks |-> Len(chunks), vectorstore_type |-> "FAISS",
                      embedding_model |-> q.embedding_model],
                     [q EXCEPT !.vectorstore = NewIndex(q, chunks),
                               !.builds = q.builds + 1],
                     1, 0)

\* RAGPipeline.create_vectorstore.  chunks is what split_documents returned
\* for the documents, embed_ok whether the embedder answered
create_vectorstore(p, documents, chunks, embed_ok) ==
    LET q == IF p.embeddings = None \/ p.text_splitter = None
             THEN initialize_components(p) ELSE p
    IN  IF chunks = <<>>
        THEN Outcome(TRUE, "ValueError: No text chunks", None, q, 0, 0)
        ELSE IF ~embed_ok
        THEN Outcome(TRUE, "EmbeddingServiceError", None, q, 1, 0)
        ELSE Outcome(FALSE, NoError,
                     [num_chunks |-> Len(chunks), vectorstore_type |-> "FAISS",
                      embedding_model |-> q.embedding_model],
                     [q EXCEPT !.vectorstore = NewIndex(q, chunks),
                               !.builds = q.builds + 1],
                     1, 0)

\* vectorstore.as_retriever(search_kwargs={"k": top_k})
AsRetriever(p) == [vectorstore |-> p.vectorstore, k |-> p.top_k]

\* RAGPipeline.create_qa_chain.  chain_ok is whether ChatOpenAI and the chain
\* constructors returned
create_qa_chain(p, chain_ok) ==
    IF p.vectorstore = None
    THEN Outcome(TRUE, "ValueError: Vector store has not been created", None, p, 0, 0)
    ELSE IF ~chain_ok
    THEN Outcome(TRUE, "ChainConstructionError", None, p, 0, 0)
    ELSE Outcome(FALSE, NoError, None,
                 [p EXCEPT !.qa_chain = [retriever |-> AsRetriever(p),
                                         llm_model |-> p.llm_model]],
                 0, 0)

\* a chunk of exactly SourceLimit characters cut as well
SourceContent_ge(page_content) ==
    IF Len(page_content) >= SourceLimit
    THEN SubSeq(page_content, 1, SourceLimit) \o <<".", ".", ".">>
    ELSE page_content

\* the "content" of a source: the conditional expression of answer_question
SourceContent(page_content) ==
    IF Len(page_content) > SourceLimit
    THEN SubSeq(page_content, 1, SourceLimit) \o <<".", ".", ".">>
    ELSE page_content

Sources(context) ==
    [i \in 1..Len(context) |->
        [content |-> SourceContent(context[i].page_content),
         metadata |-> context[i].metadata]]

\* what qa_chain.invoke can do: the retriever embeds the question and looks
\* the index up, then the LLM generates
InvokeOutcomes == {"retrieval_error", "generation_error", "ok"}

\* RAGPipeline.answer_question.  invoke is one of InvokeOutcomes, picks the
\* positions in the chain's index of the chunks retrieved, in order, and
\* answer is the generated text
answer_question(p, question, chain_ok, invoke, picks, answer) ==
    LET made == IF p.qa_chain = None THEN create_qa_chain(p, chain_ok)
                ELSE Outcome(FALSE, NoError, None, p, 0, 0)
        q == made.pipe
    IN  IF made.raised THEN made
        ELSE IF invoke = "retrieval_error"
        THEN Outcome(TRUE, "EmbeddingServiceError", None, q, 1, 0)
        ELSE IF invoke = "generation_error"
        THEN Outcome(TRUE, "GenerationServiceError", None, q, 1, 1)
        ELSE LET index == q.qa_chain.retriever.vectorstore
                 context == [i \in 1..Len(picks) |-> index.chunks[picks[i]]]
             IN  [Outcome(FALSE, NoError,
                          [answer |-> answer, sources |-> Sources(context)],
                          q, 1, 1)
                      EXCEPT !.result = [context |-> context, answer |-> answer]]

\* the retriever handed out without a look at the vectorstore
get_retriever_unchecked(p) == Outcome(FALSE, NoError, AsRetriever(p), p, 0, 0)

\* RAGPipeline.get_retriever
get_retriever(p) ==
    IF p.vectorstore = None
    THEN Outcome(TRUE, "ValueError: Vector store has not been created", None, p, 0, 0)
    ELSE Outcome(FALSE, NoError, AsRetriever(p), p, 0, 0)

(***************************************************************************)
(* The outcomes of the libraries.                                          *)
(***************************************************************************)
\* a text of n characters, no two adjacent ones alike
TextOfLen(n) ==
    [i \in 1..n |-> IF i % 3 = 0 THEN "a" ELSE IF i % 3 = 1 THEN "b" ELSE "c"]

\* split_documents: the documents are cut one after the other, every chunk
\* carries the metadata of the document it was cut from; no documents, no
\* chunks.  A chunking is a sequence of <<document index, chunk length>>
Chunkings(documents, lens, maxChunks) ==
    LET cuts == {c \in SeqsUpTo((1..Len(documents)) \X lens, maxChunks) :
                    \A i \in 1..(Len(c) - 1) : c[i][1] <= c[i + 1][1]}
    IN  {[i \in 1..Len(c) |-> [page_content |-> TextOfLen(c[i][2]),
                               metadata |-> documents[c[i][1]].metadata]] : c \in cuts}

\* the retriever: the k chunks of the index nearest to the question, in any
\* order of similarity, all the chunks when the index holds fewer than k
Retrievals(retriever) ==
    LET n == Len(retriever.vectorstore.chunks)
    IN  {r \in [1..Min(retriever.k, n) -> 1..n] :
            \A i, j \in 1..Len(r) : i # j => r[i] # r[j]}

(***************************************************************************)
(* app.py.  st.session_state is the record session_state; a script run in  *)
(* which a widget fired yields [session, run]: the session state it leaves *)
(* and what happened in it (the widget, how it ended, the calls made to    *)
(* the embedder and the LLM, and the splitter configuration                *)
(* split_documents was called with).                                       *)
(***************************************************************************)
\* initialize_session_state
initialize_session_state ==
    [messages |-> <<>>,
     rag_pipeline |-> None,
     documents_processed |-> FALSE,
     vectorstore_info |-> None,
     pdf_metadata |-> <<>>]

Run(action, outcome, error, embed_calls, llm_calls, split_with) ==
    [action |-> action, outcome |-> outcome, error |-> error,
     embed_calls |-> embed_calls, llm_calls |-> llm_calls,
     split_with |-> split_with]

\* render_sidebar: the sliders, at their lowest, initial and highest values
ChunkSizeChoices == {500, DEFAULT_CHUNK_SIZE, 2000}
ChunkOverlapChoices == {0, DEFAULT_CHUNK_OVERLAP, 500}
TopKChoices == {1, DEFAULT_TOP_K}
ApiKeys == {"", "sk-key"}

\* render_sidebar: the reset button, shown while documents_processed
ResetOffered(ss) == ss.documents_processed

\* the chat history left in place
reset_session_keeps_messages(ss) ==
    [session |-> [ss EXCEPT !.rag_pipeline = None,
                            !.documents_processed = FALSE,
                            !.vectorstore_info = None,
                            !.pdf_metadata = <<>>],
     run |-> Run("reset", "ok", NoError, 0, 0, None)]

reset_session(ss) ==
    [session |-> [ss EXCEPT !.messages = <<>>,
                            !.rag_pipeline = None,
                            !.documents_processed = FALSE,
                            !.vectorstore_info = None,
                            !.pdf_metadata = <<>>],
     run |-> Run("reset", "ok", NoError, 0, 0, None)]

\* render_pdf_upload: the upload branch is entered
UploadBranch(ss, files) == files # <<>> /\ ~ss.documents_processed

\* render_pdf_upload: the process button is shown
ProcessOffered(ss, files, api_key) == UploadBranch(ss, files) /\ api_key # ""

\* the pipeline stored and the flag raised before the QA chain is made
process_pdfs_early_store(ss, files, api_key, embedding_model, llm_model, chunk_size, chunk_overlap, top_k, chunks, embed_ok, chain_ok) ==
    LET extracted == process_multiple_pdfs(files)
        documents == extracted[1]
        s1 == [ss EXCEPT !.pdf_metadata = extracted[2]]
        rag_pipeline == RAGPipeline(api_key, embedding_model, llm_model,
                                    chunk_size, chunk_overlap, top_k)
        built == create_vectorstore(rag_pipeline, documents, chunks, embed_ok)
        s2 == [s1 EXCEPT !.vectorstore_info = built.ret,
                         !.rag_pipeline = built.pipe,
                         !.documents_processed = TRUE]
        chained == create_qa_chain(built.pipe, chain_ok)
    IN  IF documents = <<>>
        THEN [session |-> s1,
              run |-> Run("process", "no_text", NoError, 0, 0, None)]
        ELSE IF built.raised
        THEN [session |-> s1,
              run |-> Run("process", "error", built.error, built.embed_calls, 0,
                          built.pipe.text_splitter)]
        ELSE IF chained.raised
        THEN [session |-> s2,
              run |-> Run("process", "error", chained.error, built.embed_calls, 0,
                          built.pipe.text_splitter)]
        ELSE [session |-> [s2 EXCEPT !.rag_pipeline = chained.pipe],
              run |-> Run("process", "ok", NoError, built.embed_calls, 0,
                          built.pipe.text_splitter)]

\* documents_processed raised before create_qa_chain is called
ProcessChained_flag_first(s2, built, chained) ==
    IF chained.raised
    THEN [session |-> [s2 EXCEPT !.documents_processed = TRUE],
          run |-> Run("process", "error", chained.error, built.embed_calls, 0,
                      built.pipe.text_splitter)]
    ELSE [session |-> [s2 EXCEPT !.rag_pipeline = chained.pipe,
                                 !.documents_processed = TRUE],
          run |-> Run("process", "ok", NoError, built.embed_calls, 0,
                      built.pipe.text_splitter)]

\* process_pdfs, the QA chain made or not: the pipeline is stored and the
\* flag raised only once create_qa_chain has returned
ProcessChained(s2, built, chained) ==
    IF chained.raised
    THEN [session |-> s2,
          run |-> Run("process", "error", chained.error, built.embed_calls, 0,
                      built.pipe.text_splitter)]
    ELSE [session |-> [s2 EXCEPT !.rag_pipeline = chained.pipe,
                                 !.documents_processed = TRUE],
          run |-> Run("process", "ok", NoError, built.embed_calls, 0,
                      built.pipe.text_splitter)]

\* process_pdfs, the vector store built or not
ProcessBuilt(s1, built, chain_ok) ==
    IF built.raised
    THEN [session |-> s1,
          run |-> Run("process", "error", built.error, built.embed_calls, 0,
                      built.pipe.text_splitter)]
    ELSE ProcessChained([s1 EXCEPT !.vectorstore_info = built.ret], built,
                        create_qa_chain(built.pipe, chain_ok))

\* process_pdfs, the text extracted: pdf_metadata is stored first, and
\* nothing else is done when there are no documents
ProcessExtracted(ss, extracted, rag_pipeline, chunks, embed_ok, chain_ok) ==
    IF extracted[1] = <<>>
    THEN [session |-> [ss EXCEPT !.pdf_metadata = extracted[2]],
          run |-> Run("process", "no_text", NoError, 0, 0, None)]
    ELSE ProcessBuilt([ss EXCEPT !.pdf_metadata = extracted[2]],
                      create_vectorstore(rag_pipeline, extracted[1], chunks, embed_ok),
                      chain_ok)

\* process_pdfs
process_pdfs(ss, files, api_key, embedding_model, llm_model, chunk_size, chunk_overlap, top_k, chunks, embed_ok, chain_ok) ==
    ProcessExtracted(ss, process_multiple_pdfs(files),
                     RAGPipeline(api_key, embedding_model, llm_model,
                                 chunk_size, chunk_overlap, top_k),
                     chunks, embed_ok, chain_ok)

\* render_chat_interface: the chat input is shown
ChatOffered(ss) == ss.documents_processed

\* the messages of the chat; content is the text, as the strings it is made of
UserMessage(prompt) == [role |-> "user", content |-> <<prompt>>]
AnswerMessage(answer, sources) ==
    [role |-> "assistant", content |-> <<answer>>, sources |-> sources]
ErrorMessage(error) ==
    [role |-> "assistant", content |-> <<"Error generating answer: ", error>>]

\* render_chat_interface: a prompt entered
ask_question(ss, prompt, chain_ok, invoke, picks, answer) ==
    LET s1 == [ss EXCEPT !.messages = Append(@, UserMessage(prompt))]
        o == answer_question(ss.rag_pipeline, prompt, chain_ok, invoke, picks, answer)
    IN  IF ss.rag_pipeline = None
        THEN [session |-> [s1 EXCEPT !.messages = Append(@, ErrorMessage("AttributeError"))],
              run |-> Run("ask", "error", "AttributeError", 0, 0, None)]
        ELSE IF o.raised
        THEN [session |-> [s1 EXCEPT !.messages = Append(@, ErrorMessage(o.error)),
                                     !.rag_pipeline = o.pipe],
              run |-> Run("ask", "error", o.error, o.embed_calls, o.llm_calls, None)]
        ELSE [session |-> [s1 EXCEPT !.messages =
                                        Append(@, AnswerMessage(o.ret.answer, o.ret.sources)),
                                     !.rag_pipeline = o.pipe],
              run |-> Run("ask", "ok", NoError, o.embed_calls, o.llm_calls, None)]

(***************************************************************************)
(* State.                                                                  *)
(***************************************************************************)
VARIABLES
    text,        \* the argument of clean_text
    cleaned,     \* clean_text(text), once computed
    recleaned,   \* clean_text(cleaned), once computed
    cleanPc,     \* "input", "cleaned", "recleaned"
    uploaded_files,  \* the argument of process_multiple_files
    all_documents,   \* its first result, once returned
    all_metadata,    \* its second result, once returned
    batchPc,         \* "input", "returned"
    pipe,            \* a RAGPipeline object driven through its methods
    last,            \* the last method called on pipe and its outcome
    session_state,   \* st.session_state
    run              \* what the last script run did

cleanVars == <<text, cleaned, recleaned, cleanPc>>
batchVars == <<uploaded_files, all_documents, all_metadata, batchPc>>
pipeVars == <<pipe, last>>
appVars == <<session_state, run>>
vars == <<text, cleaned, recleaned, cleanPc,
          uploaded_files, all_documents, all_metadata, batchPc,
          pipe, last, session_state, run>>

(***************************************************************************)
(* The normalizer applied once, and again to its own output.               *)
(***************************************************************************)
CleanIdle ==
    /\ text = <<>>
    /\ cleaned = <<>>
    /\ recleaned = <<>>
    /\ cleanPc = "idle"

BatchIdle ==
    /\ uploaded_files = <<>>
    /\ all_documents = <<>>
    /\ all_metadata = <<>>
    /\ batchPc = "idle"

PipeIdle ==
    /\ pipe = None
    /\ last = None

AppIdle ==
    /\ session_state = None
    /\ run = None

InitClean ==
    /\ text \in Strings
    /\ cleaned = <<>>
    /\ recleaned = <<>>
    /\ cleanPc = "input"
    /\ BatchIdle
    /\ PipeIdle
    /\ AppIdle

CleanText ==
    /\ cleanPc = "input"
    /\ cleaned' = clean_text(text)
    /\ cleanPc' = "cleaned"
    /\ UNCHANGED <<text, recleaned, batchVars, pipeVars, appVars>>

CleanAgain ==
    /\ cleanPc = "cleaned"
    /\ recleaned' = clean_text(cleaned)
    /\ cleanPc' = "recleaned"
    /\ UNCHANGED <<text, cleaned, batchVars, pipeVars, appVars>>

NextClean == CleanText \/ CleanAgain

SpecClean == InitClean /\ [][NextClean]_vars

(***************************************************************************)
(* process_multiple_files applied to a batch of uploaded files.            *)
(***************************************************************************)
Batches == SeqsUpTo(SampleFiles, MaxFiles)

InitBatch ==
    /\ uploaded_files \in Batches
    /\ all_documents = <<>>
    /\ all_metadata = <<>>
    /\ batchPc = "input"
    /\ CleanIdle
    /\ PipeIdle
    /\ AppIdle

ProcessMultipleFiles ==
    /\ batchPc = "input"
    /\ LET r == process_multiple_files(uploaded_files)
       IN  /\ all_documents' = r[1]
           /\ all_metadata' = r[2]
    /\ batchPc' = "returned"
    /\ UNCHANGED <<uploaded_files, cleanVars, pipeVars, appVars>>

NextBatch == ProcessMultipleFiles

SpecBatch == InitBatch /\ [][NextBatch]_vars

(***************************************************************************)
(* One RAGPipeline object and any sequence of calls of its methods.        *)
(***************************************************************************)
ChunkLens == {SourceLimit, SourceLimit + 1}
Questions == {"q1"}
Answers == {"a1", "not found"}

\* the document lists handed to create_vectorstore
PipeDocuments ==
    {process_multiple_files(b)[1] : b \in {<<>>, <<PdfUpperCase>>}}

Called(op, o) ==
    [op |-> op, raised |-> o.raised, error |-> o.error, ret |-> o.ret,
     embed_calls |-> o.embed_calls, llm_calls |-> o.llm_calls, result |-> o.result]

InitPipe ==
    /\ \E top_k \in {1, DEFAULT_TOP_K} :
          pipe = RAGPipeline("sk-key", DEFAULT_EMBEDDING_MODEL, DEFAULT_LLM_MODEL,
                             DEFAULT_CHUNK_SIZE, DEFAULT_CHUNK_OVERLAP, top_k)
    /\ last = None
    /\ CleanIdle
    /\ BatchIdle
    /\ AppIdle

\* create_vectorstore called, the chunks having lengths among lens
CreateVectorstoreCall(lens) ==
    /\ pipe.builds < MaxBuilds
    /\ \E documents \in PipeDocuments :
       \E chunks \in Chunkings(documents, lens, MaxChunks) :
       \E embed_ok \in (IF chunks = <<>> THEN {TRUE} ELSE BOOLEAN) :
          LET o == create_vectorstore(pipe, documents, chunks, embed_ok)
          IN  /\ pipe' = o.pipe
              /\ last' = Called("create_vectorstore", o)
    /\ UNCHANGED <<cleanVars, batchVars, appVars>>

CallCreateVectorstore == CreateVectorstoreCall(ChunkLens)

CallCreateQaChain ==
    /\ \E chain_ok \in (IF pipe.vectorstore = None THEN {TRUE} ELSE BOOLEAN) :
          LET o == create_qa_chain(pipe, chain_ok)
          IN  /\ pipe' = o.pipe
              /\ last' = Called("create_qa_chain", o)
    /\ UNCHANGED <<cleanVars, batchVars, appVars>>

\* the retriever answer_question will go through, None when there is none
RetrieverInUse(p) ==
    IF p.qa_chain # None THEN p.qa_chain.retriever
    ELSE IF p.vectorstore # None THEN AsRetriever(p)
    ELSE None

\* the outcomes of the libraries that answer_question(p, ...) can meet:
\* <<chain_ok, invoke, picks, answer>>, each drawn only where it is looked at
AnswerOutcomes(p) ==
    LET retriever == RetrieverInUse(p)
        held == {TRUE} \X (InvokeOutcomes \ {"ok"}) \X {<<>>} \X {"a1"}
    IN  IF retriever = None THEN {<<TRUE, "ok", <<>>, "a1">>}
        ELSE (IF p.qa_chain = None THEN {<<FALSE, "ok", <<>>, "a1">>} ELSE {})
             \cup held
             \cup ({TRUE} \X {"ok"} \X Retrievals(retriever) \X Answers)

CallAnswerQuestion ==
    /\ \E question \in Questions, x \in AnswerOutcomes(pipe) :
          LET chain_ok == x[1]
              invoke == x[2]
              picks == x[3]
              answer == x[4]
              o == answer_question(pipe, question, chain_ok, invoke, picks, answer)
          IN  /\ pipe' = o.pipe
              /\ last' = Called("answer_question", o)
    /\ UNCHANGED <<cleanVars, batchVars, appVars>>

CallGetRetriever ==
    /\ LET o == get_retriever(pipe)
       IN  /\ pipe' = o.pipe
           /\ last' = Called("get_retriever", o)
    /\ UNCHANGED <<cleanVars, batchVars, appVars>>

NextPipe ==
    \/ CallCreateVectorstore
    \/ CallCreateQaChain
    \/ CallAnswerQuestion
    \/ CallGetRetriever

SpecPipe == InitPipe /\ [][NextPipe]_vars

(***************************************************************************)
(* One Streamlit session: every step is one script run of main() in which  *)
(* one widget fired.                                                       *)
(***************************************************************************)
\* the uploader takes PDF files only
Uploads == SeqsUpTo({PdfUpperCase, PdfCorrupt}, MaxUpload)

InitApp ==
    /\ session_state = initialize_session_state
    /\ run = None
    /\ CleanIdle
    /\ BatchIdle
    /\ PipeIdle

ResetSession ==
    /\ ResetOffered(session_state)
    /\ LET r == reset_session(session_state)
       IN  /\ session_state' = r.session
           /\ run' = r.run
    /\ UNCHANGED <<cleanVars, batchVars, pipeVars>>

\* files uploaded while no API key is configured: an error is shown
ProcessWithoutKey ==
    /\ \E files \in Uploads, api_key \in ApiKeys :
          UploadBranch(session_state, files) /\ ~ProcessOffered(session_state, files, api_key)
    /\ run' = Run("process", "no_api_key", NoError, 0, 0, None)
    /\ UNCHANGED <<session_state, cleanVars, batchVars, pipeVars>>

\* the outcomes of the libraries that process_pdfs can meet on the files:
\* <<chunks, embed_ok, chain_ok>>, each drawn only where it is looked at
ProcessOutcomes(files, lens) ==
    LET chunkings == Chunkings(process_multiple_pdfs(files)[1], lens, MaxChunks)
    IN  UNION {IF chunks = <<>> THEN {<<chunks, TRUE, TRUE>>}
               ELSE {<<chunks, FALSE, TRUE>>, <<chunks, TRUE, FALSE>>, <<chunks, TRUE, TRUE>>} :
               chunks \in chunkings}

\* the process button pressed, the sliders set among the given values
ProcessRun(sizes, overlaps, ks) ==
    /\ \E files \in Uploads, api_key \in ApiKeys :
          /\ ProcessOffered(session_state, files, api_key)
          /\ \E x \in ProcessOutcomes(files, {1}) :
             \E chunk_size \in sizes, chunk_overlap \in overlaps :
             \E top_k \in ks :
             LET chunks == x[1]
                 embed_ok == x[2]
                 chain_ok == x[3]
                 r == process_pdfs(session_state, files, api_key,
                                   DEFAULT_EMBEDDING_MODEL, DEFAULT_LLM_MODEL,
                                   chunk_size, chunk_overlap, top_k,
                                   chunks, embed_ok, chain_ok)
             IN  /\ session_state' = r.session
                 /\ run' = r.run
    /\ UNCHANGED <<cleanVars, batchVars, pipeVars>>

ProcessPdfs == ProcessRun(ChunkSizeChoices, ChunkOverlapChoices, TopKChoices)

AskQuestion ==
    /\ ChatOffered(session_state)
    /\ Len(session_state.messages) + 2 <= MaxMessages
    /\ \E prompt \in Questions, x \in AnswerOutcomes(session_state.rag_pipeline) :
          LET r == ask_question(session_state, prompt, x[1], x[2], x[3], x[4])
          IN  /\ session_state' = r.session
              /\ run' = r.run
    /\ UNCHANGED <<cleanVars, batchVars, pipeVars>>

Next == ResetSession \/ ProcessWithoutKey \/ ProcessPdfs \/ AskQuestion

Spec == InitApp /\ [][Next]_vars

(***************************************************************************)
(* Index building alone: create_vectorstore called on a RAGPipeline        *)
(* object, and called by process_pdfs in a session whose sliders are left  *)
(* at their initial values.                                                *)
(***************************************************************************)
InitBuild ==
    /\ pipe = RAGPipeline("sk-key", DEFAULT_EMBEDDING_MODEL, DEFAULT_LLM_MODEL,
                          DEFAULT_CHUNK_SIZE, DEFAULT_CHUNK_OVERLAP, DEFAULT_TOP_K)
    /\ last = None
    /\ session_state = initialize_session_state
    /\ run = None
    /\ CleanIdle
    /\ BatchIdle

BuildIndex == CreateVectorstoreCall({1})

ProcessPdfsDefault ==
    ProcessRun({DEFAULT_CHUNK_SIZE}, {DEFAULT_CHUNK_OVERLAP}, {DEFAULT_TOP_K})

NextBuild == BuildIndex \/ ProcessPdfsDefault \/ ResetSession

SpecBuild == InitBuild /\ [][NextBuild]_vars

(***************************************************************************)
(* C6: clean_text is idempotent, and its output holds no NUL character, no *)
(* two adjacent whitespace characters (so no multi-space run and no empty  *)
(* line) and no whitespace at either end.                                  *)
(***************************************************************************)
Normalized(s) ==
    /\ \A i \in 1..Len(s) : s[i] # NUL
    /\ \A i \in 1..(Len(s) - 1) : ~(s[i] \in Whitespace /\ s[i + 1] \in Whitespace)
    /\ s # <<>> => (s[1] \notin Whitespace /\ s[Len(s)] \notin Whitespace)

C6_CleanTextIdempotent ==
    /\ cleanPc \in {"cleaned", "recleaned"} => Normalized(cleaned)
    /\ cleanPc = "recleaned" => recleaned = cleaned

\* a text with a NUL between two spaces inside a line, cleaned twice
C6_Witness ==
    /\ cleanPc = "recleaned"
    /\ \E i \in 1..(Len(text) - 2) :
          text[i] = " " /\ text[i + 1] = NUL /\ text[i + 2] = " "
    /\ Len(cleaned) = 3

(***************************************************************************)
(* C1: process_multiple_files returns one metadata entry per input file,   *)
(* in input order, entry i carrying file i's filename and being an error   *)
(* record exactly when file i failed; the documents are those of the files *)
(* that succeeded, in input order; and what is returned for a file is what *)
(* would be returned for it alone, whatever the other files did.           *)
(***************************************************************************)
FileFailed(f) == ExtractFile(f).raised

IsErrorRecord(m) == "error" \in DOMAIN m

Succeeded(files) == SelectSeq(files, LAMBDA f : ~FileFailed(f))

RECURSIVE DocumentsOf(_)
DocumentsOf(files) ==
    IF files = <<>> THEN <<>>
    ELSE (IF FileFailed(Head(files)) THEN <<>> ELSE ExtractFile(Head(files)).documents)
         \o DocumentsOf(Tail(files))

C1_BatchIsolation ==
    batchPc = "returned" =>
        /\ Len(all_metadata) = Len(uploaded_files)
        /\ \A i \in 1..Len(uploaded_files) :
              /\ all_metadata[i].filename = uploaded_files[i].name
              /\ IsErrorRecord(all_metadata[i]) <=> FileFailed(uploaded_files[i])
              /\ all_metadata[i] = process_multiple_files(<<uploaded_files[i]>>)[2][1]
        /\ all_documents = DocumentsOf(uploaded_files)
        /\ all_documents = process_multiple_files(Succeeded(uploaded_files))[1]

\* three files, the second one failing, the first and third yielding documents
C1_Witness ==
    /\ batchPc = "returned"
    /\ Len(uploaded_files) = 3
    /\ FileFailed(uploaded_files[2])
    /\ ~FileFailed(uploaded_files[1]) /\ ~FileFailed(uploaded_files[3])
    /\ Len(all_metadata) = 3
    /\ IsErrorRecord(all_metadata[2])
    /\ ~IsErrorRecord(all_metadata[1]) /\ ~IsErrorRecord(all_metadata[3])
    /\ {all_documents[j].metadata.source : j \in 1..Len(all_documents)}
         = {uploaded_files[1].name, uploaded_files[3].name}
    /\ uploaded_files[1].name # uploaded_files[3].name

(***************************************************************************)
(* C2: a create_vectorstore call on a pipeline whose vectorstore is built  *)
(* raises and leaves the vectorstore it found in place.                    *)
(***************************************************************************)
C2_BuildWhileIndexedFails ==
    [][(last'.op = "create_vectorstore" /\ pipe.vectorstore # None)
          => (last'.raised /\ pipe'.vectorstore = pipe.vectorstore)]_vars

(***************************************************************************)
(* C3: on a pipeline whose vectorstore is unset, get_retriever,            *)
(* create_qa_chain and answer_question each raise, call neither the        *)
(* embedder nor the LLM, and leave vectorstore and qa_chain unset.         *)
(***************************************************************************)
C3_IndexNotBuilt ==
    [][(last'.op \in {"get_retriever", "create_qa_chain", "answer_question"}
          /\ pipe.vectorstore = None)
          => /\ last'.raised
             /\ last'.embed_calls = 0
             /\ last'.llm_calls = 0
             /\ pipe'.vectorstore = None
             /\ pipe'.qa_chain = None]_vars

\* a question asked of a pipeline left Empty by a failed build
C3_Witness ==
    /\ last # None
    /\ last.op = "answer_question"
    /\ last.raised
    /\ pipe.vectorstore = None
    /\ pipe.embeddings # None

(***************************************************************************)
(* C8: answer_question returns the generated answer and one source per     *)
(* retrieved chunk, in retrieval order: the chunk's metadata, and its      *)
(* content whole when it has at most 200 characters, else its first 200    *)
(* characters followed by "...".                                           *)
(***************************************************************************)
SourceShows(source, chunk) ==
    LET c == chunk.page_content
    IN  /\ source.metadata = chunk.metadata
        /\ Len(c) <= 200 => source.content = c
        /\ Len(c) > 200 =>
              /\ Len(source.content) = 203
              /\ \A j \in 1..200 : source.content[j] = c[j]
              /\ \A j \in 201..203 : source.content[j] = "."

C8_AnswerSources ==
    (last # None /\ last.op = "answer_question" /\ ~last.raised) =>
        /\ last.ret.answer = last.result.answer
        /\ DOMAIN last.ret = {"answer", "sources"}
        /\ Len(last.ret.sources) = Len(last.result.context)
        /\ \A i \in 1..Len(last.result.context) :
              SourceShows(last.ret.sources[i], last.result.context[i])

\* two chunks retrieved, of 201 and of exactly 200 characters
C8_Witness ==
    /\ last # None
    /\ last.op = "answer_question"
    /\ ~last.raised
    /\ Len(last.result.context) = 2
    /\ Len(last.result.context[1].page_content) = 201
    /\ Len(last.result.context[2].page_content) = 200
    /\ Len(last.ret.sources[1].content) = 203
    /\ Len(last.ret.sources[2].content) = 200

(***************************************************************************)
(* C4: a create_vectorstore call that raises leaves the vectorstore (and   *)
(* the QA chain) of the pipeline as they were before the call, and a       *)
(* process_pdfs run in which it raises leaves documents_processed and      *)
(* rag_pipeline of the session as they were.                               *)
(***************************************************************************)
BuildErrors == {"ValueError: No text chunks", "EmbeddingServiceError"}

C4_BuildAtomic ==
    [][/\ (last' # None /\ last'.op = "create_vectorstore" /\ last'.raised)
            => /\ pipe'.vectorstore = pipe.vectorstore
               /\ pipe'.qa_chain = pipe.qa_chain
       /\ (run' # None /\ run'.action = "process" /\ run'.outcome = "error"
              /\ run'.error \in BuildErrors)
            => /\ session_state'.documents_processed = session_state.documents_processed
               /\ session_state'.rag_pipeline = session_state.rag_pipeline
               /\ ~session_state'.documents_processed
               /\ session_state'.rag_pipeline = None]_vars

\* the embedder failed in a rebuild of an indexed pipeline and in a session
C4_Witness ==
    /\ last # None /\ run # None
    /\ last.op = "create_vectorstore"
    /\ last.raised
    /\ last.error = "EmbeddingServiceError"
    /\ pipe.vectorstore # None
    /\ run.action = "process"
    /\ run.outcome = "error"
    /\ run.error = "EmbeddingServiceError"
    /\ ~session_state.documents_processed
    /\ session_state.rag_pipeline = None

(***************************************************************************)
(* C5: split_documents is only ever called with a splitter configured with *)
(* 0 <= chunk_overlap < chunk_size.                                        *)
(***************************************************************************)
C5_ChunkConfigValid ==
    (run # None /\ run.split_with # None) =>
        /\ 0 <= run.split_with.chunk_overlap
        /\ run.split_with.chunk_overlap < run.split_with.chunk_size

(***************************************************************************)
(* C9: a failed processing run leaves the session Empty with the process   *)
(* button still offered; a failed question leaves it Indexed with the same *)
(* pipeline and the chat input still offered; in either, the embedder and  *)
(* the LLM were each called at most once.                                  *)
(***************************************************************************)
SessionEmpty(ss) == ~ss.documents_processed /\ ss.rag_pipeline = None

SessionIndexed(ss) ==
    /\ ss.documents_processed
    /\ ss.rag_pipeline # None
    /\ ss.rag_pipeline.vectorstore # None

C9_ErrorsLeaveRetry ==
    [][/\ (run'.action = "process" /\ run'.outcome \in {"no_text", "error"})
            => /\ SessionEmpty(session_state')
               /\ \A files \in Uploads \ {<<>>} :
                     ProcessOffered(session_state', files, "sk-key")
               /\ run'.embed_calls <= 1
               /\ run'.llm_calls = 0
       /\ (run'.action = "ask" /\ run'.outcome = "error")
            => /\ SessionIndexed(session_state')
               /\ session_state'.rag_pipeline = session_state.rag_pipeline
               /\ ChatOffered(session_state')
               /\ run'.embed_calls <= 1
               /\ run'.llm_calls <= 1]_vars

\* a question that failed in generation, asked again after one that failed
C9_Witness ==
    /\ run # None
    /\ run.action = "ask"
    /\ run.outcome = "error"
    /\ run.error = "GenerationServiceError"
    /\ run.llm_calls = 1
    /\ Len(session_state.messages) = 4
    /\ "sources" \notin DOMAIN session_state.messages[2]
    /\ SessionIndexed(session_state)

(***************************************************************************)
(* C10: the session starts Empty; it becomes Indexed only in a processing  *)
(* run where documents were extracted and create_vectorstore and           *)
(* create_qa_chain succeeded; questions are taken and the reset is offered *)
(* only while Indexed, processing only while Empty; and it leaves Indexed  *)
(* only by a reset, which discards the pipeline with its index, the index  *)
(* metadata, the file metadata and the chat history.                       *)
(***************************************************************************)
C10_Lifecycle ==
    [][/\ run = None => session_state = initialize_session_state
       /\ (~session_state.documents_processed /\ session_state'.documents_processed)
            => /\ run'.action = "process" /\ run'.outcome = "ok"
               /\ \E m \in 1..Len(session_state'.pdf_metadata) :
                     /\ ~IsErrorRecord(session_state'.pdf_metadata[m])
                     /\ session_state'.pdf_metadata[m].total_text_length > 0
               /\ session_state'.rag_pipeline # None
               /\ session_state'.rag_pipeline.vectorstore # None
               /\ session_state'.rag_pipeline.qa_chain # None
               /\ session_state'.rag_pipeline.qa_chain.retriever.vectorstore
                     = session_state'.rag_pipeline.vectorstore
               /\ session_state'.vectorstore_info # None
       /\ run'.action = "ask" => SessionIndexed(session_state)
       /\ run'.action = "process" => SessionEmpty(session_state)
       /\ run'.action = "reset" => SessionIndexed(session_state)
       /\ (session_state.documents_processed /\ ~session_state'.documents_processed)
            => run'.action = "reset"
       /\ run'.action = "reset"
            => /\ SessionEmpty(session_state')
               /\ session_state'.vectorstore_info = None
               /\ session_state'.pdf_metadata = <<>>
               /\ session_state'.messages = <<>>]_vars

\* Empty again, by a reset
C10_Witness ==
    /\ run # None
    /\ run.action = "reset"
    /\ SessionEmpty(session_state)
    /\ session_state = initialize_session_state

(***************************************************************************)
(* C11: whatever calls were made on a RAGPipeline, the retriever of the QA *)
(* chain it holds looks up the vectorstore it holds, the one built last:   *)
(* the chain never refers to an index that a later create_vectorstore has  *)
(* replaced, and a question answered is answered from the index built last.*)
(***************************************************************************)
C11_ChainOnLatestIndex ==
    /\ (pipe # None /\ pipe.qa_chain # None)
          => pipe.qa_chain.retriever.vectorstore = pipe.vectorstore
    /\ (last # None /\ last.op = "answer_question" /\ ~last.raised)
          => \A i \in 1..Len(last.result.context) :
                \E j \in 1..Len(pipe.vectorstore.chunks) :
                   last.result.context[i] = pipe.vectorstore.chunks[j]

(***************************************************************************)
(* C12: in every state of the session, documents_processed is True exactly *)
(* when rag_pipeline is set; when it is True the stored pipeline has its   *)
(* vectorstore and its qa_chain built and vectorstore_info is set; and the *)
(* chat history is non-empty only when it is True.                         *)
(***************************************************************************)
C12_SessionConsistent ==
    session_state # None =>
        /\ session_state.documents_processed <=> session_state.rag_pipeline # None
        /\ session_state.documents_processed
              => /\ session_state.rag_pipeline.vectorstore # None
                 /\ session_state.rag_pipeline.qa_chain # None
                 /\ session_state.vectorstore_info # None
        /\ session_state.messages # <<>> => session_state.documents_processed

\* Indexed, a question answered after one that failed
C12_Witness ==
    /\ session_state # None /\ run # None
    /\ session_state.documents_processed
    /\ session_state.rag_pipeline # None
    /\ run.action = "ask"
    /\ run.outcome = "ok"
    /\ Len(session_state.messages) = 4
    /\ "sources" \notin DOMAIN session_state.messages[2]
    /\ "sources" \in DOMAIN session_state.messages[4]

====
